---- MODULE Spec2Model ----
(***************************************************************************)
(* remove_demo_branches.py: a script that reads a source file, collapses   *)
(* every `if (false) {...} else {...}` to its else body, deletes every     *)
(* remaining `if (false) {...}`, and writes the file back.                 *)
(*                                                                         *)
(* A text is a sequence of characters (one-character strings).  The two    *)
(* regular expressions are modelled by a matcher that follows their        *)
(* structure, re.sub by a left-to-right scan, and the script by one action *)
(* per statement.                                                          *)
(***************************************************************************)
EXTENDS Integers, Sequences, FiniteSets, TLC

VARIABLES
    file,             \* contents of /home/user/webapp/src/api/server.ts on disk
    pc,               \* the statement the script is at
    read_content,     \* module-level `content`, the text read from the file
    content,          \* the function's parameter `content`
    prev_content,     \* the function's local `prev_content`
    cleaned_content,  \* module-level `cleaned_content`
    passes,           \* number of executions of the while body so far
    stdout,           \* lines printed
    input,            \* the file's contents when the script started
    parts             \* the pieces the input was assembled from

vars == <<file, pc, read_content, content, prev_content, cleaned_content, passes, stdout,
          input, parts>>

-----------------------------------------------------------------------------
(* Characters and literals of the patterns *)

LBrace == "{"
RBrace == "}"

\* `if \(false\) \{`
IfFalseOpen == <<"i", "f", " ", "(", "f", "a", "l", "s", "e", ")", " ", "{">>

\* `\} else \{`
ElseJoin == <<"}", " ", "e", "l", "s", "e", " ", "{">>

\* str.strip() with no argument removes leading and trailing whitespace
Whitespace == {" ", "\n", "\t", "\r"}

IsBrace(c) == c \in {LBrace, RBrace}

\* does `lit` occur in s starting at position i
LitAt(s, i, lit) ==
    /\ i >= 1
    /\ i + Len(lit) - 1 <= Len(s)
    /\ s[i] = lit[1]
    /\ SubSeq(s, i, i + Len(lit) - 1) = lit

-----------------------------------------------------------------------------
(* The matcher.  Positions are 1-based; an "end" is the position just past *)
(* the matched text; 0 stands for "no match".                              *)

\* `[^{}]*` from position i, greedy: the position of the first brace at or
\* after i (Len(s)+1 if there is none).  Every pattern element that follows
\* a `[^{}]*` is a brace, so giving characters back never yields a match.
RECURSIVE NonBraceRun(_, _)
NonBraceRun(s, i) ==
    IF i > Len(s) \/ IsBrace(s[i]) THEN i ELSE NonBraceRun(s, i + 1)

\* position of the first `}` at or after i (Len(s)+1 if there is none)
RECURSIVE NotCloseRun(_, _)
NotCloseRun(s, i) ==
    IF i > Len(s) \/ s[i] = RBrace THEN i ELSE NotCloseRun(s, i + 1)

\* the group written `\{[^}]*\}[^{}]*`: a `{` is accepted inside the group
GroupEnd_OpenInside(s, i) ==
    IF i <= Len(s) /\ s[i] = LBrace
    THEN LET k == NotCloseRun(s, i + 1)
         IN  IF k <= Len(s) /\ s[k] = RBrace THEN NonBraceRun(s, k + 1) ELSE 0
    ELSE 0

\* one `\{[^{}]*\}[^{}]*` from position i; 0 when it does not match
GroupEnd(s, i) ==
    IF i <= Len(s) /\ s[i] = LBrace
    THEN LET k == NonBraceRun(s, i + 1)
         IN  IF k <= Len(s) /\ s[k] = RBrace THEN NonBraceRun(s, k + 1) ELSE 0
    ELSE 0

\* `(?:\{[^{}]*\}[^{}]*)*` from position i, greedy.  Where an iteration
\* fails the next character is `{` or the end of the text, and the element
\* that follows the star is `\}`: fewer iterations never match either.
RECURSIVE GroupsEnd(_, _)
GroupsEnd(s, i) ==
    LET g == GroupEnd(s, i)
    IN  IF g = 0 THEN i ELSE GroupsEnd(s, g)

\* `[^{}]*(?:\{[^{}]*\}[^{}]*)*` from position i
BodyEnd(s, i) == GroupsEnd(s, NonBraceRun(s, i))

NoMatch == [end |-> 0, g1 |-> <<>>]

\* a match of `pattern` that starts at position i: its end and group 1
pattern(s, i) ==
    IF ~LitAt(s, i, IfFalseOpen) THEN NoMatch
    ELSE LET a == BodyEnd(s, i + Len(IfFalseOpen))
         IN  IF ~LitAt(s, a, ElseJoin) THEN NoMatch
             ELSE LET b == a + Len(ElseJoin)
                      e == BodyEnd(s, b)
                  IN  IF e <= Len(s) /\ s[e] = RBrace
                      THEN [end |-> e + 1, g1 |-> SubSeq(s, b, e - 1)]
                      ELSE NoMatch

\* a match of `standalone_pattern` that starts at position i
standalone_pattern(s, i) ==
    IF ~LitAt(s, i, IfFalseOpen) THEN NoMatch
    ELSE LET a == BodyEnd(s, i + Len(IfFalseOpen))
         IN  IF a <= Len(s) /\ s[a] = RBrace
             THEN [end |-> a + 1, g1 |-> <<>>]
             ELSE NoMatch

-----------------------------------------------------------------------------
(* str.strip() *)

RECURSIVE LStrip(_)
LStrip(s) ==
    IF s # <<>> /\ Head(s) \in Whitespace THEN LStrip(Tail(s)) ELSE s

RECURSIVE RStrip(_)
RStrip(s) ==
    IF s # <<>> /\ s[Len(s)] \in Whitespace
    THEN RStrip(SubSeq(s, 1, Len(s) - 1)) ELSE s

strip(s) == RStrip(LStrip(s))

\* replace_func with the strip left out
replace_func_unstripped(m) == m.g1

\* replace_func that ends the kept else body with a line break
replace_func_newline(m) == strip(m.g1) \o <<"\n">>

\* replace_func that leaves a marker comment before the kept else body
replace_func_commented(m) ==
    <<"/", "*", " ", "d", "e", "m", "o", " ", "b", "r", "a", "n", "c", "h",
      " ", "r", "e", "m", "o", "v", "e", "d", " ", "*", "/", " ">>
    \o strip(m.g1)

\* replace_func: the replacement for one match of `pattern`
replace_func(m) == strip(m.g1)

\* the standalone substitution with ' ' as the replacement
StandaloneRepl_space(m) == <<" ">>

\* the replacement '' of the standalone substitution
StandaloneRepl(m) == <<>>

-----------------------------------------------------------------------------
(* re.sub: leftmost, non-overlapping matches, each replaced; the text      *)
(* between matches is copied.  Both patterns match at least 13 characters, *)
(* so no empty match arises.                                               *)

RECURSIVE SubIfElse(_, _)
SubIfElse(s, i) ==
    IF i > Len(s) THEN <<>>
    ELSE LET m == pattern(s, i)
         IN  IF m.end # 0
             THEN replace_func(m) \o SubIfElse(s, m.end)
             ELSE <<s[i]>> \o SubIfElse(s, i + 1)

\* the standalone substitution with count=1: only the first match is replaced
RECURSIVE SubStandalone_First(_, _)
SubStandalone_First(s, i) ==
    IF i > Len(s) THEN <<>>
    ELSE LET m == standalone_pattern(s, i)
         IN  IF m.end # 0
             THEN StandaloneRepl(m) \o SubSeq(s, m.end, Len(s))
             ELSE <<s[i]>> \o SubStandalone_First(s, i + 1)

RECURSIVE SubStandalone(_, _)
SubStandalone(s, i) ==
    IF i > Len(s) THEN <<>>
    ELSE LET m == standalone_pattern(s, i)
         IN  IF m.end # 0
             THEN StandaloneRepl(m) \o SubStandalone(s, m.end)
             ELSE <<s[i]>> \o SubStandalone(s, i + 1)

\* the while loop run to its end
RECURSIVE FixIfElse(_, _)
FixIfElse(prev, cur) ==
    IF prev = cur THEN cur ELSE FixIfElse(cur, SubIfElse(cur, 1))

\* remove_demo_branches as a function of its argument
remove_demo_branches(x) == SubStandalone(FixIfElse(<<>>, x), 1)

-----------------------------------------------------------------------------
(* The script, one action per statement *)

SuccessMessage == "Demo branches removed successfully"

\* with open(..., 'r') as f: content = f.read()
ReadOk ==
    /\ pc = "read"
    /\ read_content' = file
    /\ pc' = "call"
    /\ UNCHANGED <<file, content, prev_content, cleaned_content, passes,
                   stdout, input, parts>>

\* open(..., 'r') or f.read() raises: the script ends, the file untouched
ReadFail ==
    /\ pc = "read"
    /\ pc' = "failed"
    /\ UNCHANGED <<file, read_content, content, prev_content,
                   cleaned_content, passes, stdout, input, parts>>

\* the call with prev_content starting as the argument instead of ""
Call_PrevIsContent ==
    /\ pc = "call"
    /\ content' = read_content
    /\ prev_content' = read_content
    /\ passes' = 0
    /\ pc' = "loop"
    /\ UNCHANGED <<file, read_content, cleaned_content, stdout, input, parts>>

\* remove_demo_branches(content) is entered: prev_content = ""
Call ==
    /\ pc = "call"
    /\ content' = read_content
    /\ prev_content' = <<>>
    /\ passes' = 0
    /\ pc' = "loop"
    /\ UNCHANGED <<file, read_content, cleaned_content, stdout, input, parts>>

\* one execution of the while body
LoopPass ==
    /\ pc = "loop"
    /\ prev_content # content
    /\ prev_content' = content
    /\ content' = SubIfElse(content, 1)
    /\ passes' = passes + 1
    /\ UNCHANGED <<file, pc, read_content, cleaned_content, stdout, input,
                   parts>>

\* the while condition is false
LoopExit ==
    /\ pc = "loop"
    /\ prev_content = content
    /\ pc' = "standalone"
    /\ UNCHANGED <<file, read_content, content, prev_content,
                   cleaned_content, passes, stdout, input, parts>>

\* the standalone substitution, `return content`, and the assignment
\* cleaned_content = remove_demo_branches(content)
Standalone ==
    /\ pc = "standalone"
    /\ content' = SubStandalone(content, 1)
    /\ cleaned_content' = content'
    /\ pc' = "open"
    /\ UNCHANGED <<file, read_content, prev_content, passes, stdout, input,
                   parts>>

\* open(..., 'w') succeeds: the file is truncated
OpenOk ==
    /\ pc = "open"
    /\ file' = <<>>
    /\ pc' = "write"
    /\ UNCHANGED <<read_content, content, prev_content, cleaned_content,
                   passes, stdout, input, parts>>

\* open(..., 'w') raises
OpenFail ==
    /\ pc = "open"
    /\ pc' = "failed"
    /\ UNCHANGED <<file, read_content, content, prev_content,
                   cleaned_content, passes, stdout, input, parts>>

\* f.write(cleaned_content) and the close at the end of the with block succeed
WriteOk ==
    /\ pc = "write"
    /\ file' = cleaned_content
    /\ pc' = "print"
    /\ UNCHANGED <<read_content, content, prev_content, cleaned_content,
                   passes, stdout, input, parts>>

\* f.write or the flush at close raises after k characters reached the file
WriteFail ==
    /\ pc = "write"
    /\ \E k \in 0 .. Len(cleaned_content) - 1 :
           file' = SubSeq(cleaned_content, 1, k)
    /\ pc' = "failed"
    /\ UNCHANGED <<read_content, content, prev_content, cleaned_content,
                   passes, stdout, input, parts>>

\* print("Demo branches removed successfully")
PrintDone ==
    /\ pc = "print"
    /\ stdout' = Append(stdout, SuccessMessage)
    /\ pc' = "done"
    /\ UNCHANGED <<file, read_content, content, prev_content,
                   cleaned_content, passes, input, parts>>

\* the whole script
Next ==
    \/ ReadOk
    \/ ReadFail
    \/ Call
    \/ LoopPass
    \/ LoopExit
    \/ Standalone
    \/ OpenOk
    \/ OpenFail
    \/ WriteOk
    \/ WriteFail
    \/ PrintDone

\* one call of remove_demo_branches
NextFn ==
    \/ Call
    \/ LoopPass
    \/ LoopExit
    \/ Standalone

-----------------------------------------------------------------------------
(* Inputs *)

MaxPieces == 6
MaxFilePieces == 4
MaxElse == 5
MaxGuardless == 5
MaxSeq == 4
MaxDeep == 3

\* `if (false)` without the brace
IfFalseWord == <<"i", "f", " ", "(", "f", "a", "l", "s", "e", ")">>
ElseWord == <<"e", "l", "s", "e">>

\* every concatenation of at most n elements of P
RECURSIVE Texts(_, _)
Texts(P, n) ==
    IF n = 0 THEN {<<>>}
    ELSE LET T == Texts(P, n - 1) IN T \cup {t \o p : t \in T, p \in P}

\* every concatenation of exactly n elements of P
RECURSIVE Exactly(_, _)
Exactly(P, n) ==
    IF n = 0 THEN {<<>>}
    ELSE {t \o p : t \in Exactly(P, n - 1), p \in P}

\* t contains no occurrence of `if (false) {`
NoLiteral(t) == \A i \in 1 .. Len(t) : ~LitAt(t, i, IfFalseOpen)

\* brace depth after t when read from depth d; -1 when a `}` closes nothing
\* or the depth would exceed max
RECURSIVE Depth(_, _, _, _)
Depth(t, i, d, max) ==
    IF i > Len(t) THEN d
    ELSE IF t[i] = LBrace
         THEN IF d = max THEN -1 ELSE Depth(t, i + 1, d + 1, max)
    ELSE IF t[i] = RBrace
         THEN IF d = 0 THEN -1 ELSE Depth(t, i + 1, d - 1, max)
    ELSE Depth(t, i + 1, d, max)

\* brace-free text interleaved with single-level {...} groups
IsSimpleNested(t) == Depth(t, 1, 0, 1) = 0

IsBalanced(t) == Depth(t, 1, 0, Len(t)) = 0

\* the state before the script's first statement
Start(x, ps) ==
    /\ file = x
    /\ input = x
    /\ parts = ps
    /\ pc = "read"
    /\ read_content = <<>>
    /\ content = <<>>
    /\ prev_content = <<>>
    /\ cleaned_content = <<>>
    /\ passes = 0
    /\ stdout = <<>>

\* the state before a call remove_demo_branches(x)
StartFn(x, ps) ==
    /\ file = x
    /\ input = x
    /\ parts = ps
    /\ pc = "call"
    /\ read_content = x
    /\ content = <<>>
    /\ prev_content = <<>>
    /\ cleaned_content = <<>>
    /\ passes = 0
    /\ stdout = <<>>

\* the building blocks of the file's contents
Pieces == {IfFalseOpen, ElseJoin, <<LBrace>>, <<RBrace>>, <<" ", "x", " ">>}

\* a run of the script on a file built from the pieces
Init == \E x \in Texts(Pieces, MaxFilePieces) : Start(x, <<>>)

Spec == Init /\ [][Next]_vars

\* one call remove_demo_branches(x), x any text built from the pieces
InitFn == \E x \in Texts(Pieces, MaxPieces) : StartFn(x, <<>>)

FnSpec == InitFn /\ [][NextFn]_vars

-----------------------------------------------------------------------------
(* Inputs of a given form.  Each is assembled from slots; the slots of one *)
(* input hold at most Max... pieces together, and `parts` records them.    *)

\* pieces of the text around a guarded block
AroundPieces == {IfFalseWord, ElseWord, <<LBrace>>, <<RBrace>>, <<" ">>}

\* pieces of a false-branch body: it may hold guarded blocks of its own
BodyPieces == {IfFalseOpen, ElseJoin, <<LBrace>>, <<RBrace>>, <<"x">>}

\* pieces of a brace-free alternative body
AltPieces == {IfFalseWord, <<" ">>, <<"\n">>, <<"x">>}

LargestShape ==
    LET B == {MaxElse, MaxGuardless, MaxSeq, MaxDeep}
    IN  CHOOSE m \in B : \A b \in B : b <= m

\* by number of pieces: texts without `if (false) {`
GuardFreeTexts ==
    [k \in 0 .. LargestShape |->
        {t \in Exactly(AroundPieces, k) : NoLiteral(t)}]

\* by number of pieces: simple-nested bodies
BodyTexts ==
    [k \in 0 .. LargestShape |->
        {t \in Exactly(BodyPieces, k) : IsSimpleNested(t)}]

\* by number of pieces: brace-free alternative bodies
AltTexts == [k \in 0 .. LargestShape |-> Exactly(AltPieces, k)]

\* pieces of the text around an if/else block and around two guarded blocks
SepPieces == {IfFalseWord, <<LBrace>>, <<RBrace>>, <<" ">>}

\* by number of pieces: texts without `if (false) {`
SepTexts ==
    [k \in 0 .. LargestShape |->
        {t \in Exactly(SepPieces, k) : NoLiteral(t)}]

\* "prefix if (false) {A} else {B} suffix"
ElseText(prefix, A, B, suffix) ==
    prefix \o <<" ">> \o IfFalseOpen \o A \o ElseJoin \o B \o <<RBrace>>
    \o <<" ">> \o suffix

InitElse ==
    \E kp, ka, kb, ks \in 0 .. MaxElse :
        /\ kp + ka + kb + ks <= MaxElse
        /\ \E p \in SepTexts[kp], a \in BodyTexts[ka],
              b \in AltTexts[kb], x \in SepTexts[ks] :
               StartFn(ElseText(p, a, b, x),
                       [prefix |-> p, A |-> a, B |-> b, suffix |-> x])

ElseSpec == InitElse /\ [][NextFn]_vars

\* "prefix if (false) {A} suffix"
GuardlessText(prefix, A, suffix) ==
    prefix \o <<" ">> \o IfFalseOpen \o A \o <<RBrace>> \o <<" ">> \o suffix

InitGuardless ==
    \E kp, ka, ks \in 0 .. MaxGuardless :
        /\ kp + ka + ks <= MaxGuardless
        /\ \E p \in GuardFreeTexts[kp], a \in BodyTexts[ka],
              x \in GuardFreeTexts[ks] :
               StartFn(GuardlessText(p, a, x),
                       [prefix |-> p, A |-> a, suffix |-> x])

GuardlessSpec == InitGuardless /\ [][NextFn]_vars

\* pieces of the false-branch body of a block that holds no other block
PlainPieces == {<<LBrace>>, <<RBrace>>, <<"x">>}

\* pieces of the alternative body of a block that holds no other block
PlainAltPieces == {IfFalseWord, ElseWord, <<LBrace>>, <<RBrace>>, <<" ">>}

PlainBodyTexts ==
    [k \in 0 .. LargestShape |->
        {t \in Exactly(PlainPieces, k) : IsSimpleNested(t)}]

PlainAltTexts ==
    [k \in 0 .. LargestShape |->
        {t \in Exactly(PlainAltPieces, k) :
            IsSimpleNested(t) /\ NoLiteral(t)}]

\* a guarded block: kind "else" has an alternative body Z, kind "less" none
Block(kind, A, Z) ==
    IF kind = "else"
    THEN IfFalseOpen \o A \o ElseJoin \o Z \o <<RBrace>>
    ELSE IfFalseOpen \o A \o <<RBrace>>

\* "t0 block1 t1 block2 t2"
SeqText(q) ==
    q.t0 \o Block(q.k1, q.A1, q.Z1) \o q.t1 \o Block(q.k2, q.A2, q.Z2)
    \o q.t2

InitSeq ==
    \E n0, a1, z1, n1, a2, z2, n2 \in 0 .. MaxSeq :
        /\ n0 + a1 + z1 + n1 + a2 + z2 + n2 <= MaxSeq
        /\ \E kind1, kind2 \in {"else", "less"} :
            /\ kind1 = "less" => z1 = 0
            /\ kind2 = "less" => z2 = 0
            /\ \E x0 \in SepTexts[n0], x1 \in SepTexts[n1],
                  x2 \in SepTexts[n2],
                  b1 \in PlainBodyTexts[a1], b2 \in PlainBodyTexts[a2],
                  y1 \in PlainAltTexts[z1], y2 \in PlainAltTexts[z2] :
                   LET q == [t0 |-> x0, k1 |-> kind1, A1 |-> b1, Z1 |-> y1,
                             t1 |-> x1, k2 |-> kind2, A2 |-> b2, Z2 |-> y2,
                             t2 |-> x2]
                   IN  StartFn(SeqText(q), q)

SeqSpec == InitSeq /\ [][NextFn]_vars

\* pieces of a body nested two levels deep
DeepPieces == {IfFalseWord, <<LBrace>>, <<RBrace>>, <<" ">>, <<"x">>}

BalancedTexts ==
    [k \in 0 .. LargestShape |->
        {t \in Exactly(DeepPieces, k) : IsBalanced(t)}]

\* a false-branch body with a brace group inside a brace group
DeepBody(q) ==
    q.b0 \o <<LBrace>> \o q.b1 \o <<LBrace>> \o q.b2 \o <<RBrace>> \o q.b3
    \o <<RBrace>> \o q.b4

\* "pre if (false) {body} post" or "pre if (false) {body} else {Z} post"
DeepText(q) ==
    q.pre \o Block(IF q.else THEN "else" ELSE "less", DeepBody(q), q.Z)
    \o q.post

InitDeep ==
    \E np, n0, n1, n2, n3, n4, nz, nq \in 0 .. MaxDeep :
        /\ np + n0 + n1 + n2 + n3 + n4 + nz + nq <= MaxDeep
        /\ \E withElse \in BOOLEAN :
            /\ ~withElse => nz = 0
            /\ \E x \in GuardFreeTexts[np], y \in GuardFreeTexts[nq],
                  c0 \in BalancedTexts[n0], c1 \in BalancedTexts[n1],
                  c2 \in BalancedTexts[n2], c3 \in BalancedTexts[n3],
                  c4 \in BalancedTexts[n4], z \in AltTexts[nz] :
                   LET q == [pre |-> x, b0 |-> c0, b1 |-> c1, b2 |-> c2,
                             b3 |-> c3, b4 |-> c4, else |-> withElse,
                             Z |-> z, post |-> y]
                   IN  /\ NoLiteral(DeepBody(q))
                       /\ StartFn(DeepText(q), q)

DeepSpec == InitDeep /\ [][NextFn]_vars

-----------------------------------------------------------------------------
(* Vocabulary of the properties *)

\* a is obtained from b by deleting characters
RECURSIVE IsSubseqFrom(_, _, _, _)
IsSubseqFrom(a, i, b, j) ==
    IF i > Len(a) THEN TRUE
    ELSE IF j > Len(b) THEN FALSE
    ELSE IF a[i] = b[j] THEN IsSubseqFrom(a, i + 1, b, j + 1)
    ELSE IsSubseqFrom(a, i, b, j + 1)

IsSubseq(a, b) == IsSubseqFrom(a, 1, b, 1)

\* the ends of the spans the standalone substitution replaces in s, from i on
RECURSIVE RemovedEnds(_, _)
RemovedEnds(s, i) ==
    IF i > Len(s) THEN {}
    ELSE LET m == standalone_pattern(s, i)
         IN  IF m.end # 0 THEN {m.end} \cup RemovedEnds(s, m.end)
             ELSE RemovedEnds(s, i + 1)

-----------------------------------------------------------------------------
(* C1: remove_demo_branches is idempotent: applied to the text one call    *)
(* returned, it returns that text again.                                   *)
C1_Idempotent ==
    pc = "open" => remove_demo_branches(cleaned_content) = cleaned_content

(* C4, as stated: on an input without `if (false) {` the loop makes        *)
(* exactly one pass, nothing changes, and the input is returned.           *)
C4_OnePassAlways ==
    NoLiteral(input) =>
        /\ pc \in {"loop", "standalone"} => content = input
        /\ pc \in {"standalone", "open"} => passes = 1
        /\ pc = "open" => cleaned_content = input

(* C4, amended: on an input without `if (false) {` the loop and the        *)
(* standalone pass change nothing and the input is returned; the loop      *)
(* makes exactly one pass when the input is not empty and no pass when it  *)
(* is empty (prev_content starts as "", equal to the empty input).         *)
C4_IdentityOnAbsence ==
    NoLiteral(input) =>
        /\ pc \in {"loop", "standalone"} => content = input
        /\ pc \in {"standalone", "open"} =>
               passes = (IF input = <<>> THEN 0 ELSE 1)
        /\ pc = "open" => cleaned_content = input

\* a non-empty input with braces and an else but no guard has been returned
C4_Witness ==
    /\ pc = "open"
    /\ NoLiteral(input)
    /\ \E i \in 1 .. Len(input) : LitAt(input, i, ElseJoin)
    /\ passes = 1
    /\ cleaned_content = input

(* C5: after every pass of the loop and after the standalone pass the      *)
(* current text is a subsequence of the input, and so is the returned      *)
(* text; it is never longer than the input.                                *)
C5_Subsequence ==
    /\ pc \in {"loop", "standalone", "open"} =>
           IsSubseq(content, input) /\ Len(content) <= Len(input)
    /\ pc = "open" =>
           IsSubseq(cleaned_content, input)
           /\ Len(cleaned_content) <= Len(input)

\* a collapse and a standalone deletion both happened and text is left
C5_Witness ==
    /\ pc = "open"
    /\ passes >= 2
    /\ prev_content # cleaned_content
    /\ cleaned_content # <<>>

(* C6: the loop halts: the number of executions of the loop body never     *)
(* exceeds the length of the input plus one (a loop that ran forever would *)
(* exceed it), and when the loop is left the text is a fixed point of the  *)
(* if/else substitution; a pass that changed the text (prev_content holds  *)
(* the text before the pass) made it strictly shorter.                     *)
C6_Termination ==
    /\ passes <= Len(input) + 1
    /\ pc = "standalone" => SubIfElse(content, 1) = content
    /\ pc = "loop" /\ passes >= 1 /\ content # prev_content
           => Len(content) < Len(prev_content)

\* the call returned after two passes that changed the text and a last one
C6_Witness ==
    /\ pc = "open"
    /\ passes = 3

(* C8: when the script has ended, by success or by failure, the file holds *)
(* its original contents or the complete transformed text.                 *)
C8_AllOrNothing ==
    pc \in {"done", "failed"} =>
        file = input \/ file = remove_demo_branches(input)

(* C9: no span the standalone pass removes is immediately followed by      *)
(* ` else {`.                                                              *)
C9_NoElseAfterRemoved ==
    pc = "standalone" =>
        \A e \in RemovedEnds(content, 1) : ~LitAt(content, e - 1, ElseJoin)

-----------------------------------------------------------------------------
\* what C2 says the call returns
ElseExpected ==
    parts.prefix \o <<" ">> \o strip(parts.B) \o <<" ">> \o parts.suffix

(* C2, as stated: for guard-free prefix and suffix, a simple-nested A and  *)
(* a brace-free B, the call on "prefix if (false) {A} else {B} suffix"     *)
(* returns prefix + " " + trim(B) + " " + suffix.                          *)
C2_ElseCollapseAlways ==
    pc = "open" => cleaned_content = ElseExpected

(* C2, amended: the call returns prefix + " " + trim(B) + " " + suffix     *)
(* whenever that text contains no `if (false) {` (the loop scans the       *)
(* collapsed text again, so a guard that the collapse puts together from   *)
(* prefix, B and suffix is processed as well).                             *)
C2_ElseCollapse ==
    pc = "open" /\ NoLiteral(ElseExpected) => cleaned_content = ElseExpected

\* a collapse that trimmed B on both sides, over a false branch with a
\* brace group
C2_Witness ==
    /\ pc = "open"
    /\ NoLiteral(ElseExpected)
    /\ cleaned_content = ElseExpected
    /\ parts.B = <<" ", "x", "\n">>
    /\ parts.A = <<LBrace, RBrace>>

\* the text starts with lit
StartsWith(t, lit) == LitAt(t, 1, lit)

\* what C3 says the call returns
GuardlessExpected == parts.prefix \o <<" ">> \o <<" ">> \o parts.suffix

(* C3: for guard-free prefix and suffix, the suffix not beginning with     *)
(* `else {`, and a simple-nested A, the call on                            *)
(* "prefix if (false) {A} suffix" returns prefix + " " + " " + suffix.     *)
C3_GuardlessDeletion ==
    pc = "open" /\ ~StartsWith(parts.suffix, ElseWord \o <<" ", LBrace>>)
        => cleaned_content = GuardlessExpected

\* a deleted block whose body held an if/else of its own, text on both sides
C3_Witness ==
    /\ pc = "open"
    /\ ~StartsWith(parts.suffix, ElseWord \o <<" ", LBrace>>)
    /\ ~NoLiteral(parts.A)
    /\ passes >= 2
    /\ parts.suffix # <<>>
    /\ cleaned_content = GuardlessExpected

-----------------------------------------------------------------------------
\* what is left of a block: the trimmed alternative body, or nothing
Collapsed(kind, Z) == IF kind = "else" THEN strip(Z) ELSE <<>>

\* what C7 says the call returns
SeqExpected ==
    parts.t0 \o Collapsed(parts.k1, parts.Z1) \o parts.t1
    \o Collapsed(parts.k2, parts.Z2) \o parts.t2

\* a block after the collapse of the else-form blocks alone
Kept(kind, A, Z) == IF kind = "else" THEN strip(Z) ELSE Block(kind, A, Z)

\* the input after the collapse of the else-form blocks alone
SeqMid ==
    parts.t0 \o Kept(parts.k1, parts.A1, parts.Z1) \o parts.t1
    \o Kept(parts.k2, parts.A2, parts.Z2) \o parts.t2

\* the positions of the closing braces of block 1 and block 2 in the input
SeqClose1 == Len(parts.t0) + Len(Block(parts.k1, parts.A1, parts.Z1))
SeqClose2 ==
    SeqClose1 + Len(parts.t1) + Len(Block(parts.k2, parts.A2, parts.Z2))

\* the same in SeqMid
MidClose1 == Len(parts.t0) + Len(Kept(parts.k1, parts.A1, parts.Z1))
MidClose2 ==
    MidClose1 + Len(parts.t1) + Len(Kept(parts.k2, parts.A2, parts.Z2))

CountLiteral(t) == Cardinality({i \in 1 .. Len(t) : LitAt(t, i, IfFalseOpen)})

CountLess == Cardinality({i \in {1, 2} : <<parts.k1, parts.k2>>[i] = "less"})

(* C7, as stated: two guarded blocks that hold no other block, separated   *)
(* and surrounded by guard-free text, an else-less block not being         *)
(* followed by ` else {`: one call returns the input with each else-form   *)
(* block replaced by its trimmed alternative body and each else-less block *)
(* deleted.                                                                *)
C7_SequentialAlways ==
    /\ pc = "open"
    /\ parts.k1 = "less" => ~LitAt(input, SeqClose1, ElseJoin)
    /\ parts.k2 = "less" => ~LitAt(input, SeqClose2, ElseJoin)
    => cleaned_content = SeqExpected

(* C7, amended: the same result, provided that in the text obtained by     *)
(* collapsing the else-form blocks alone the only occurrences of           *)
(* `if (false) {` are those that open the else-less blocks and no          *)
(* else-less block is followed by ` else {`.                               *)
C7_Sequential ==
    /\ pc = "open"
    /\ CountLiteral(SeqMid) = CountLess
    /\ parts.k1 = "less" => ~LitAt(SeqMid, MidClose1, ElseJoin)
    /\ parts.k2 = "less" => ~LitAt(SeqMid, MidClose2, ElseJoin)
    => cleaned_content = SeqExpected

\* an else-less block was deleted and an else-form block collapsed to a
\* non-empty body in one call
C7_Witness ==
    /\ pc = "open"
    /\ CountLiteral(SeqMid) = CountLess
    /\ parts.k1 = "less" /\ ~LitAt(SeqMid, MidClose1, ElseJoin)
    /\ parts.k2 = "else" /\ strip(parts.Z2) # <<>>
    /\ parts.t1 # <<>>
    /\ cleaned_content = SeqExpected

(* C10: a single `if (false) {body}`, with or without ` else {Z}` (Z       *)
(* brace-free), in guard-free text, whose body holds a brace group inside  *)
(* a brace group and no `if (false) {`: the call returns the input         *)
(* unchanged.                                                              *)
C10_TwoLevelUnchanged ==
    pc = "open" => cleaned_content = input /\ passes = 1

\* such an input with an else branch and text inside the inner group was
\* returned
C10_Witness ==
    /\ pc = "open"
    /\ parts.else
    /\ parts.b2 # <<>>
    /\ cleaned_content = input

====
